---- MODULE Spec2Model ----
(***************************************************************************)
(* Model of the runner game: the location feed (dawarich.py), the progress *)
(* tracker (game.py RunningGame, subclassed by llm.py Mission) and the     *)
(* monitor thread of the web application (app.py).                         *)
(*                                                                         *)
(* Units: distances are whole metres on a small grid, times are whole      *)
(* minutes.  Python values that may be None, a number or a string are      *)
(* records [t |-> <type tag>, v |-> <number>].                             *)
(***************************************************************************)
EXTENDS Integers, Sequences, FiniteSets, TLC

(***************************************************************************)
(* Bounds of the model.                                                    *)
(***************************************************************************)
MaxBatch == 3
MaxClock == 2
MaxCalls == 2
MaxMeasure == 3

(***************************************************************************)
(* Python values.                                                          *)
(***************************************************************************)
PyNone == [t |-> "None", v |-> 0]
Num(n) == [t |-> "num", v |-> n]
\* a string that float() parses, e.g. "52"
NumStr(n) == [t |-> "numstr", v |-> n]
\* a string that float() rejects, e.g. "n/a"; also the mode string "distance"
Str == [t |-> "str", v |-> 0]
\* JSON null stored under a key
Null == [t |-> "null", v |-> 0]
\* the key is not in the dict
Absent == [t |-> "absent", v |-> 0]

\* Python truthiness: None, null, 0 and 0.0 are falsy; a non-empty string is truthy
Truthy(x) ==
    \/ x.t = "num" /\ x.v # 0
    \/ x.t \in {"str", "numstr"}

\* float(x): the number, or the exception it raises
Float(x) ==
    CASE x.t \in {"num", "numstr"} -> [exc |-> "none", v |-> x.v]
      [] x.t = "str" -> [exc |-> "ValueError", v |-> 0]
      [] OTHER -> [exc |-> "TypeError", v |-> 0]

Abs(n) == IF n < 0 THEN -n ELSE n

(***************************************************************************)
(* Points.  A point is a dict; it is modelled as a record over every key   *)
(* the code looks at, a missing key holding Absent.  "location" holds a    *)
(* nested dict (t = "dict"), a non-dict value (t = "other") or is missing. *)
(***************************************************************************)
NoLoc == [lat |-> Absent, latitude |-> Absent,
          lon |-> Absent, lng |-> Absent, longitude |-> Absent]

NoKeys == [lat |-> Absent, latitude |-> Absent, lat_deg |-> Absent,
           lon |-> Absent, lng |-> Absent, longitude |-> Absent, lon_deg |-> Absent,
           location |-> [t |-> "absent", d |-> NoLoc],
           speed |-> Absent]

Flat(a, b) == [NoKeys EXCEPT !.lat = Num(a), !.lon = Num(b)]
Nested(a, b) == [NoKeys EXCEPT !.location =
                    [t |-> "dict", d |-> [NoLoc EXCEPT !.lat = Num(a), !.lon = Num(b)]]]

\* the key pairs of _extract_coords in the order the two nested loops try them
FlatPairs == << <<"lat", "lon">>, <<"lat", "lng">>, <<"lat", "longitude">>, <<"lat", "lon_deg">>,
                <<"latitude", "lon">>, <<"latitude", "lng">>, <<"latitude", "longitude">>,
                <<"latitude", "lon_deg">>,
                <<"lat_deg", "lon">>, <<"lat_deg", "lng">>, <<"lat_deg", "longitude">>,
                <<"lat_deg", "lon_deg">> >>

NestedPairs == << <<"lat", "lon">>, <<"lat", "lng">>, <<"lat", "longitude">>,
                  <<"latitude", "lon">>, <<"latitude", "lng">>, <<"latitude", "longitude">> >>

\* k in d
In(d, k) == d[k].t # "absent"

\* return float(d[lat_key]), float(d[lon_key]): the first float() that raises wins
FloatPair(d, pair) ==
    LET la == Float(d[pair[1]])
        lo == Float(d[pair[2]])
    IN  IF la.exc # "none" THEN [exc |-> la.exc, lat |-> PyNone, lon |-> PyNone]
        ELSE IF lo.exc # "none" THEN [exc |-> lo.exc, lat |-> PyNone, lon |-> PyNone]
        ELSE [exc |-> "none", lat |-> Num(la.v), lon |-> Num(lo.v)]

\* the indices of the pairs both of whose keys are in d
Hits(d, pairs) == {i \in 1..Len(pairs) : In(d, pairs[i][1]) /\ In(d, pairs[i][2])}

Min(S) == CHOOSE x \in S : \A y \in S : x <= y

\* _extract_coords with the nested pattern tried before the flat ones
ExtractCoordsNestedFirst(point) ==
    IF point.location.t = "dict" /\ Hits(point.location.d, NestedPairs) # {}
    THEN FloatPair(point.location.d, NestedPairs[Min(Hits(point.location.d, NestedPairs))])
    ELSE IF Hits(point, FlatPairs) # {}
    THEN FloatPair(point, FlatPairs[Min(Hits(point, FlatPairs))])
    ELSE [exc |-> "none", lat |-> PyNone, lon |-> PyNone]

\* Dawarich._extract_coords: (lat, lon), the sentinel (None, None), or an exception
ExtractCoords(point) ==
    IF Hits(point, FlatPairs) # {}
    THEN FloatPair(point, FlatPairs[Min(Hits(point, FlatPairs))])
    ELSE IF point.location.t = "dict" /\ Hits(point.location.d, NestedPairs) # {}
    THEN FloatPair(point.location.d, NestedPairs[Min(Hits(point.location.d, NestedPairs))])
    ELSE [exc |-> "none", lat |-> PyNone, lon |-> PyNone]

\* Dawarich._haversine on the grid: the great-circle distance of two points of one
\* meridian is R * |dphi|; one grid step is one metre, and a step in longitude
\* counts the same (symmetric, zero exactly for identical points)
Haversine(lat1, lon1, lat2, lon2) == Abs(lat2 - lat1) + Abs(lon2 - lon1)

\* the coords list of analyze_points: the resolvable points in arrival order
RECURSIVE CoordsOf(_)
CoordsOf(points) ==
    IF points = << >> THEN << >>
    ELSE LET c == ExtractCoords(Head(points))
         IN  IF c.lat.t # "None" /\ c.lon.t # "None"
             THEN << <<c.lat.v, c.lon.v>> >> \o CoordsOf(Tail(points))
             ELSE CoordsOf(Tail(points))

\* the exception of the first point on which _extract_coords raises, or "none"
RECURSIVE FirstExc(_)
FirstExc(points) ==
    IF points = << >> THEN "none"
    ELSE IF ExtractCoords(Head(points)).exc # "none" THEN ExtractCoords(Head(points)).exc
    ELSE FirstExc(Tail(points))

\* the loop over zip(coords, coords[1:])
RECURSIVE PathLength(_)
PathLength(coords) ==
    IF Len(coords) < 2 THEN 0
    ELSE Haversine(coords[1][1], coords[1][2], coords[2][1], coords[2][2])
         + PathLength(Tail(coords))

\* what a call of the feed gives: None, a summary dict, or an exception
NoData == [kind |-> "None", exc |-> "none", distance_travelled_m |-> 0,
           latest_location |-> <<PyNone, PyNone>>, latest_speed |-> PyNone]
Raised(e) == [NoData EXCEPT !.kind = "raise", !.exc = e]

\* latest.get("speed")
GetSpeed(point) == IF In(point, "speed") THEN point.speed ELSE PyNone

\* Dawarich.analyze_points
AnalyzePoints(points) ==
    IF points = << >> THEN NoData
    ELSE IF FirstExc(points) # "none" THEN Raised(FirstExc(points))
    ELSE IF Len(CoordsOf(points)) < 2 THEN NoData
    ELSE LET latest == points[Len(points)]
             c == ExtractCoords(latest)
         IN  [kind |-> "summary", exc |-> "none",
              distance_travelled_m |-> PathLength(CoordsOf(points)),
              latest_location |-> <<c.lat, c.lon>>,
              latest_speed |-> GetSpeed(latest)]


(***************************************************************************)
(* The feed as the tracker sees it.                                        *)
(***************************************************************************)
\* the bodies the location service answers with in the runs of the tracker: no
\* point, one point, two points that coincide, a walk of 1 m, a walk of 2 m, points
\* without coordinate keys, and a point whose coordinates are null
FeedBatches == {<< >>,
                <<Flat(0, 0)>>,
                <<Flat(0, 0), Flat(0, 0)>>,
                <<Flat(1, 0), Flat(0, 0)>>,
                <<Flat(0, 0), Flat(1, 0), Flat(0, 0)>>,
                <<NoKeys, NoKeys>>,
                <<[NoKeys EXCEPT !.lat = Null, !.lon = Null]>>}

\* Dawarich.get_points_since: the JSON body, or the exception of raise_for_status
\* (a transport error raises from requests.get the same way)
FetchOutcomes == {[ok |-> FALSE, points |-> << >>]} \cup
                 {[ok |-> TRUE, points |-> b] : b \in FeedBatches}

\* Dawarich.since: get_points_since, then analyze_points on what it returned
Since(fetch) == IF fetch.ok THEN AnalyzePoints(fetch.points) ELSE Raised("FetchFailed")

SinceOutcomes == {Since(f) : f \in FetchOutcomes}

(***************************************************************************)
(* The tracker's pure parts.                                               *)
(***************************************************************************)
\* _is_success with the boundary excluded (<= for <)
IsSuccessStrict(dgoal, tgoal, distance_m, elapsed_min) ==
    IF \/ Truthy(dgoal) /\ distance_m <= dgoal.v
       \/ Truthy(tgoal) /\ elapsed_min <= tgoal.v
    THEN "False" ELSE "True"

\* _is_success that is content with one goal met (success starts False and a met
\* goal sets it)
IsSuccessEither(dgoal, tgoal, distance_m, elapsed_min) ==
    IF \/ ~Truthy(dgoal) /\ ~Truthy(tgoal)
       \/ Truthy(dgoal) /\ distance_m >= dgoal.v
       \/ Truthy(tgoal) /\ elapsed_min >= tgoal.v
    THEN "True" ELSE "False"

\* RunningGame._is_success: "True", "False", or the TypeError of comparing a
\* number with a string goal
IsSuccess(dgoal, tgoal, distance_m, elapsed_min) ==
    IF Truthy(dgoal) /\ dgoal.t # "num" THEN "TypeError"
    ELSE IF Truthy(tgoal) /\ tgoal.t # "num" THEN "TypeError"
    ELSE IF \/ Truthy(dgoal) /\ distance_m < dgoal.v
            \/ Truthy(tgoal) /\ elapsed_min < tgoal.v
         THEN "False" ELSE "True"

\* update() that forgets the distance when the feed has no data
UpdatedDistanceReset(old, s) ==
    IF s.kind = "summary" THEN s.distance_travelled_m ELSE 0

\* RunningGame.update, the distance it keeps: the feed's total when the summary
\* is truthy and its distance is truthy, else the old value
UpdatedDistance(old, s) ==
    IF s.kind = "summary" /\ Truthy(Num(s.distance_travelled_m))
    THEN s.distance_travelled_m ELSE old

\* RunningGame._get_current_location on the fetched points
CurrentLocation(points) ==
    IF points = << >> THEN [exc |-> "none", lat |-> Num(0), lon |-> Num(0)]
    ELSE ExtractCoords(points[Len(points)])

\* one line (or block of lines) of the session file
LogEntry(k, d, e, r) == [kind |-> k, distance_m |-> d, elapsed_min |-> e, result |-> r]


(***************************************************************************)
(* Strings of voices.py.  A str is the sequence of its characters, a bytes *)
(* object the sequence of its bytes (0..255).                              *)
(***************************************************************************)
UpperLetters == <<"A", "B", "C", "D", "E", "F", "G", "H", "I", "J", "K", "L", "M",
                  "N", "O", "P", "Q", "R", "S", "T", "U", "V", "W", "X", "Y", "Z">>
LowerLetters == <<"a", "b", "c", "d", "e", "f", "g", "h", "i", "j", "k", "l", "m",
                  "n", "o", "p", "q", "r", "s", "t", "u", "v", "w", "x", "y", "z">>
DigitChars == <<"0", "1", "2", "3", "4", "5", "6", "7", "8", "9">>

\* the index of c in the sequence s, 0 when it is not there
IndexOf(s, c) == IF \E i \in 1..Len(s) : s[i] = c
                 THEN Min({i \in 1..Len(s) : s[i] = c})
                 ELSE 0

\* str.lower()
Lower(s) == [i \in 1..Len(s) |->
                IF IndexOf(UpperLetters, s[i]) # 0
                THEN LowerLetters[IndexOf(UpperLetters, s[i])]
                ELSE s[i]]

\* str.startswith(prefix)
StartsWith(s, prefix) == Len(s) >= Len(prefix) /\ SubSeq(s, 1, Len(prefix)) = prefix

\* str.strip(): the blanks at both ends go
RECURSIVE Strip(_)
Strip(s) ==
    IF s = << >> THEN s
    ELSE IF Head(s) = " " THEN Strip(Tail(s))
    ELSE IF s[Len(s)] = " " THEN Strip(SubSeq(s, 1, Len(s) - 1))
    ELSE s

\* str.split(sep): every piece between two separators, empty pieces included
RECURSIVE Split(_, _)
Split(s, sep) ==
    IF IndexOf(s, sep) = 0 THEN <<s>>
    ELSE <<SubSeq(s, 1, IndexOf(s, sep) - 1)>> \o Split(SubSeq(s, IndexOf(s, sep) + 1, Len(s)), sep)

\* str.split(sep, 1): cut at the first separator, one piece when there is none
SplitOnce(s, sep) ==
    IF IndexOf(s, sep) = 0 THEN <<s>>
    ELSE <<SubSeq(s, 1, IndexOf(s, sep) - 1), SubSeq(s, IndexOf(s, sep) + 1, Len(s))>>

\* the value of a string of decimal digits
RECURSIVE DigitsValue(_)
DigitsValue(s) ==
    IF s = << >> THEN 0
    ELSE 10 * DigitsValue(SubSeq(s, 1, Len(s) - 1)) + (IndexOf(DigitChars, s[Len(s)]) - 1)

\* int(s): blanks around the number and a sign are accepted, anything else but
\* digits is a ValueError
ParseInt(s) ==
    LET t == Strip(s)
        signed == t # << >> /\ Head(t) \in {"+", "-"}
        digits == IF signed THEN Tail(t) ELSE t
    IN  IF digits = << >> \/ \E i \in 1..Len(digits) : IndexOf(DigitChars, digits[i]) = 0
        THEN [exc |-> "ValueError", v |-> 0]
        ELSE [exc |-> "none",
              v |-> IF signed /\ Head(t) = "-" THEN -DigitsValue(digits) ELSE DigitsValue(digits)]

\* the decimal digits of a natural number
RECURSIVE DigitsOf(_)
DigitsOf(n) ==
    IF n < 10 THEN <<DigitChars[n + 1]>>
    ELSE DigitsOf(n \div 10) \o <<DigitChars[(n % 10) + 1]>>

\* parse_audio_mime_type's loop over the segments: a later segment of a kind
\* replaces what an earlier one gave; a segment whose int() or [1] fails is skipped
RECURSIVE ParseSegments(_, _)
ParseSegments(parts, acc) ==
    IF parts = << >> THEN acc
    ELSE LET segment == Head(parts)
             lower == Lower(segment)
             byEq == SplitOnce(segment, "=")
             byL == SplitOnce(segment, "l")
         IN  IF StartsWith(lower, <<"r", "a", "t", "e", "=">>)
             THEN IF Len(byEq) < 2 \/ ParseInt(byEq[2]).exc # "none"
                  THEN ParseSegments(Tail(parts), acc)
                  ELSE ParseSegments(Tail(parts), [acc EXCEPT !.rate = Num(ParseInt(byEq[2]).v)])
             ELSE IF StartsWith(lower, <<"a", "u", "d", "i", "o", "/", "l">>)
             THEN IF Len(byL) < 2 \/ ParseInt(byL[2]).exc # "none"
                  THEN ParseSegments(Tail(parts), acc)
                  ELSE ParseSegments(Tail(parts),
                                     [acc EXCEPT !.bits_per_sample = Num(ParseInt(byL[2]).v)])
             ELSE ParseSegments(Tail(parts), acc)

\* the segments of the descriptor, stripped, the empty ones left out
RECURSIVE StrippedSegments(_)
StrippedSegments(pieces) ==
    IF pieces = << >> THEN << >>
    ELSE IF Strip(Head(pieces)) = << >> THEN StrippedSegments(Tail(pieces))
    ELSE <<Strip(Head(pieces))>> \o StrippedSegments(Tail(pieces))

\* voices.parse_audio_mime_type
ParseAudioMimeType(mime_type) ==
    IF mime_type = << >> THEN [bits_per_sample |-> PyNone, rate |-> PyNone]
    ELSE ParseSegments(StrippedSegments(Split(mime_type, ";")),
                       [bits_per_sample |-> PyNone, rate |-> PyNone])

\* struct.pack of one little-endian unsigned field of w bytes
LittleEndian(v, w) == [i \in 1..w |-> (v \div (256 ^ (i - 1))) % 256]

\* the value a little-endian field of bytes holds
RECURSIVE FromLittleEndian(_)
FromLittleEndian(bytes) ==
    IF bytes = << >> THEN 0 ELSE Head(bytes) + 256 * FromLittleEndian(Tail(bytes))

\* b"RIFF", b"WAVE", b"fmt " and b"data"
RIFF == <<82, 73, 70, 70>>
WAVE == <<87, 65, 86, 69>>
FMT == <<102, 109, 116, 32>>
DATA == <<100, 97, 116, 97>>

\* struct.pack raises struct.error for a value its format cannot hold: "H" holds
\* 0..65535, "I" holds 0..2^32-1 (every number of the model is below 2^31)
FitsH(v) == 0 <= v /\ v <= 65535
FitsI(v) == 0 <= v

\* the value of "x or default" for an Optional[int]
OrDefault(x, default) == IF Truthy(x) THEN x.v ELSE default

\* convert_to_wav with the RIFF chunk size counting the payload only
ConvertToWavShortChunk(audio_data, mime_type) ==
    LET parameters == ParseAudioMimeType(mime_type)
        bits_per_sample == OrDefault(parameters.bits_per_sample, 16)
        sample_rate == OrDefault(parameters.rate, 24000)
        data_size == Len(audio_data)
        block_align == bits_per_sample \div 8
    IN  [exc |-> "none",
         data |-> RIFF \o LittleEndian(data_size, 4) \o WAVE \o FMT
                  \o LittleEndian(16, 4) \o LittleEndian(1, 2) \o LittleEndian(1, 2)
                  \o LittleEndian(sample_rate, 4) \o LittleEndian(sample_rate * block_align, 4)
                  \o LittleEndian(block_align, 2) \o LittleEndian(bits_per_sample, 2)
                  \o DATA \o LittleEndian(data_size, 4) \o audio_data]

\* voices.convert_to_wav: the 44 bytes of the header, then the payload
ConvertToWav(audio_data, mime_type) ==
    LET parameters == ParseAudioMimeType(mime_type)
        bits_per_sample == OrDefault(parameters.bits_per_sample, 16)
        sample_rate == OrDefault(parameters.rate, 24000)
        num_channels == 1
        data_size == Len(audio_data)
        bytes_per_sample == bits_per_sample \div 8
        block_align == num_channels * bytes_per_sample
        byte_rate == sample_rate * block_align
        chunk_size == 36 + data_size
    IN  IF ~(FitsI(chunk_size) /\ FitsH(num_channels) /\ FitsI(sample_rate) /\ FitsI(byte_rate)
             /\ FitsH(block_align) /\ FitsH(bits_per_sample) /\ FitsI(data_size))
        THEN [exc |-> "struct.error", data |-> << >>]
        ELSE [exc |-> "none",
              data |-> RIFF \o LittleEndian(chunk_size, 4) \o WAVE \o FMT
                       \o LittleEndian(16, 4) \o LittleEndian(1, 2)
                       \o LittleEndian(num_channels, 2) \o LittleEndian(sample_rate, 4)
                       \o LittleEndian(byte_rate, 4) \o LittleEndian(block_align, 2)
                       \o LittleEndian(bits_per_sample, 2)
                       \o DATA \o LittleEndian(data_size, 4) \o audio_data]


(***************************************************************************)
(* State.                                                                  *)
(***************************************************************************)
VARIABLES
    distance_goal_m,    \* RunningGame.distance_goal_m
    time_goal_min,      \* RunningGame.time_goal_min
    start_time,         \* RunningGame.start_time (None before start())
    start_location,     \* RunningGame.start_location
    session_file,       \* the lines of the session file, << >> while there is none
    total_distance_m,   \* RunningGame.total_distance_m
    mission_status,     \* app.py: the dict the status endpoint serves
    pc,                 \* the monitor thread's position in monitor_mission
    stats,              \* monitor_mission's local stats (distance_m, elapsed_min)
    monitor_exc,        \* the exception that ended the monitor thread, or "none"
    phase,              \* "constructed", "started", or "start_failed" (start() raised)
    now,                \* the wall clock, in minutes
    feed,               \* what Dawarich.since gave the latest update()
    ret,                \* what the latest update() or end() call returned or raised
    updates,            \* number of update() calls so far (from anyone)
    polls,              \* number of update() calls the monitor made
    narrations,         \* number of times the monitor started the success narration
    call,               \* a direct call of a pure function: its arguments
    result,             \* and its result
    files,              \* the files under stories/<game>/audio
    wall,               \* the wall clock of datetime.now(), in half seconds
    gpc,                \* the position of the running generate_audio call
    stream,             \* what the synthesis stream has yet to deliver
    gen,                \* the locals of the running generate_audio call
    gen_ret,            \* what the latest generate_audio call returned or raised
    gen_calls,          \* number of generate_audio calls so far
    response,           \* what the latest request handler answered
    recorded            \* the points the location service holds, with their times

tracker == <<distance_goal_m, time_goal_min, start_time, start_location,
             session_file, total_distance_m>>
monitor == <<mission_status, pc, stats, monitor_exc, polls, narrations>>
direct == <<call, result>>
voice == <<files, wall, gpc, stream, gen, gen_ret, gen_calls>>
serving == <<response>>
service == <<recorded>>
vars == <<tracker, monitor, phase, now, feed, ret, updates, direct, voice, serving, service>>

\* settings.py: MONITOR_INTERVAL, 60 seconds by default, in minutes
MONITOR_INTERVAL == 1

\* the goals a tracker is built with; app.py builds Mission(mode="distance",
\* target_value=5), and Mission.__init__ hands mode and target_value to
\* RunningGame.__init__ as distance_goal_m and time_goal_min
GoalConfigs == {<<PyNone, PyNone>>, <<Num(2), PyNone>>, <<PyNone, Num(2)>>,
                <<Num(2), Num(2)>>, <<Str, Num(5)>>}

NoRet == [fn |-> "none", exc |-> "none", distance_m |-> 0, elapsed_min |-> 0, result |-> ""]
NoCall == [fn |-> "none", distance_goal_m |-> PyNone, time_goal_min |-> PyNone,
           distance_m |-> 0, elapsed_min |-> 0, points |-> << >>,
           audio_data |-> << >>, mime_type |-> << >>,
           mode |-> PyNone, target_value |-> PyNone]
NoResult == [done |-> FALSE, value |-> "", stats |-> NoData,
             coords |-> [exc |-> "none", lat |-> PyNone, lon |-> PyNone],
             wav |-> [exc |-> "none", data |-> << >>],
             goals |-> [distance_goal_m |-> PyNone, time_goal_min |-> PyNone],
             start_exc |-> "none"]

\* audio_mime_type: Optional[str]
NoMime == [t |-> "None", s |-> << >>]
Mime(chars) == [t |-> "str", s |-> chars]

\* the locals of generate_audio before the stream is read
NoGen == [voice_type |-> "", narration |-> "", audio_bytes |-> << >>,
          audio_mime_type |-> NoMime, supplemental_text |-> << >>,
          audio_data |-> << >>, extension |-> "", timestamp |-> 0]
NoStream == [chunks |-> << >>, fails |-> FALSE]
NoGenRet == [exc |-> "none", path |-> [dir |-> "", key |-> 0, ext |-> ""]]

\* no generate_audio call yet, no file under stories/
InitVoice ==
    /\ files = {}
    /\ wall = 0
    /\ gpc = "idle"
    /\ stream = NoStream
    /\ gen = NoGen
    /\ gen_ret = NoGenRet
    /\ gen_calls = 0

\* mission_status as the module level of app.py builds it
InitStatus == [distance_m |-> 0, elapsed_min |-> 0, is_success |-> FALSE,
               is_failure |-> FALSE, is_active |-> TRUE]

\* the location service holds nothing the runs of the tracker look at by time:
\* the batches it answers with are chosen freely
InitService == recorded = << >>

\* no request served yet
InitServing ==
    /\ response = [handler |-> "none", status |-> InitStatus, audio |-> {}, file |-> {}]

\* RunningGame.__init__ and the module level of app.py
Init ==
    /\ \E g \in GoalConfigs : distance_goal_m = g[1] /\ time_goal_min = g[2]
    /\ start_time = PyNone
    /\ start_location = <<PyNone, PyNone>>
    /\ session_file = << >>
    /\ total_distance_m = 0
    /\ mission_status = [distance_m |-> 0, elapsed_min |-> 0, is_success |-> FALSE,
                         is_failure |-> FALSE, is_active |-> TRUE]
    /\ pc = "not_started"
    /\ stats = [distance_m |-> 0, elapsed_min |-> 0]
    /\ monitor_exc = "none"
    /\ phase = "constructed"
    /\ now = 0
    /\ feed = NoData
    /\ ret = NoRet
    /\ updates = 0
    /\ polls = 0
    /\ narrations = 0
    /\ call = NoCall
    /\ result = NoResult
    /\ InitVoice
    /\ InitServing
    /\ InitService

\* time passes
ClockTick ==
    /\ phase = "started"
    /\ now < MaxClock
    /\ now' = now + 1
    /\ UNCHANGED <<tracker, monitor, phase, feed, ret, updates, direct, service, voice, serving>>

\* the exception start() raises while it writes the header: the goal lines divide
\* the distance goal by 1000 and format the time goal with :.0f
HeaderExc(dgoal, tgoal) ==
    IF Truthy(dgoal) /\ dgoal.t # "num" THEN "TypeError"
    ELSE IF Truthy(tgoal) /\ tgoal.t # "num" THEN "ValueError"
    ELSE "none"

\* RunningGame.start, called once at the module level of app.py; when it returns,
\* app.py starts the monitor thread
Start ==
    /\ phase = "constructed"
    /\ \E f \in FetchOutcomes :
         LET loc == IF f.ok THEN CurrentLocation(f.points)
                    ELSE [exc |-> "FetchFailed", lat |-> PyNone, lon |-> PyNone]
             hexc == HeaderExc(distance_goal_m, time_goal_min)
         IN  /\ start_time' = Num(now)
             /\ IF loc.exc # "none"
                THEN /\ phase' = "start_failed"
                     /\ UNCHANGED <<start_location, session_file, pc>>
                ELSE /\ start_location' = <<loc.lat, loc.lon>>
                     /\ IF hexc # "none"
                        THEN /\ session_file' = <<LogEntry("partial_header", 0, 0, "")>>
                             /\ phase' = "start_failed"
                             /\ pc' = pc
                        ELSE /\ session_file' = <<LogEntry("header", 0, 0, "")>>
                             /\ phase' = "started"
                             /\ pc' = "while"
    /\ UNCHANGED <<distance_goal_m, time_goal_min, total_distance_m, mission_status,
                   stats, monitor_exc, polls, narrations, now, feed, ret, updates, direct, service, voice, serving>>

(***************************************************************************)
(* RunningGame.update with the feed answering s: what it leaves behind.    *)
(***************************************************************************)
Elapsed == now - start_time.v

UpdateRaises(s) == s.kind = "raise"

\* the audit line update() appends
AuditLine(s) == LogEntry("audit", UpdatedDistance(total_distance_m, s), Elapsed, "")

\* the dict update() returns, or the exception it lets through
UpdateRet(s) ==
    IF UpdateRaises(s)
    THEN [fn |-> "update", exc |-> s.exc, distance_m |-> 0, elapsed_min |-> 0, result |-> ""]
    ELSE [fn |-> "update", exc |-> "none", distance_m |-> UpdatedDistance(total_distance_m, s),
          elapsed_min |-> Elapsed, result |-> ""]

\* update() called directly on the tracker
Update ==
    /\ phase = "started"
    /\ updates < MaxCalls
    /\ \E s \in SinceOutcomes :
         /\ feed' = s
         /\ ret' = UpdateRet(s)
         /\ IF UpdateRaises(s)
            THEN UNCHANGED <<total_distance_m, session_file>>
            ELSE /\ total_distance_m' = UpdatedDistance(total_distance_m, s)
                 /\ session_file' = Append(session_file, AuditLine(s))
    /\ updates' = updates + 1
    /\ UNCHANGED <<distance_goal_m, time_goal_min, start_time, start_location,
                   monitor, phase, now, direct, service, voice, serving>>

\* RunningGame.end called directly on the tracker: update(), _is_success, the
\* terminal record
End ==
    /\ phase = "started"
    /\ updates < MaxCalls
    /\ \E s \in SinceOutcomes :
         LET r == UpdateRet(s)
             ok == IsSuccess(distance_goal_m, time_goal_min, r.distance_m, r.elapsed_min)
             res == IF ok = "True" THEN "SUCCESS" ELSE "FAILURE"
         IN  /\ feed' = s
             /\ IF UpdateRaises(s)
                THEN /\ ret' = [r EXCEPT !.fn = "end"]
                     /\ UNCHANGED <<total_distance_m, session_file>>
                ELSE /\ total_distance_m' = UpdatedDistance(total_distance_m, s)
                     /\ IF ok = "TypeError"
                        THEN /\ ret' = [r EXCEPT !.fn = "end", !.exc = "TypeError"]
                             /\ session_file' = Append(session_file, AuditLine(s))
                        ELSE /\ ret' = [r EXCEPT !.fn = "end", !.result = res]
                             /\ session_file' = Append(Append(session_file, AuditLine(s)),
                                                       LogEntry("end", 0, 0, res))
    /\ updates' = updates + 1
    /\ UNCHANGED <<distance_goal_m, time_goal_min, start_time, start_location,
                   monitor, phase, now, direct, service, voice, serving>>


(***************************************************************************)
(* monitor_mission, the thread app.py starts.  One action per statement    *)
(* that reads or writes state shared with the request handlers.            *)
(***************************************************************************)
\* while mission_status["is_active"]:
MonitorWhile ==
    /\ pc = "while"
    /\ pc' = IF mission_status.is_active THEN "update" ELSE "done"
    /\ UNCHANGED <<tracker, mission_status, stats, monitor_exc, polls, narrations,
                   phase, now, feed, ret, updates, direct, service, voice, serving>>

\* stats = mission.update(); an exception of update() is not caught and ends the
\* thread
MonitorUpdate ==
    /\ pc = "update"
    /\ updates < MaxCalls
    /\ \E s \in SinceOutcomes :
         /\ feed' = s
         /\ ret' = UpdateRet(s)
         /\ IF UpdateRaises(s)
            THEN /\ pc' = "crashed"
                 /\ monitor_exc' = s.exc
                 /\ UNCHANGED <<total_distance_m, session_file, stats>>
            ELSE /\ pc' = "set_distance"
                 /\ total_distance_m' = UpdatedDistance(total_distance_m, s)
                 /\ session_file' = Append(session_file, AuditLine(s))
                 /\ stats' = [distance_m |-> UpdatedDistance(total_distance_m, s),
                              elapsed_min |-> Elapsed]
                 /\ UNCHANGED monitor_exc
    /\ updates' = updates + 1
    /\ polls' = polls + 1
    /\ UNCHANGED <<distance_goal_m, time_goal_min, start_time, start_location,
                   mission_status, narrations, phase, now, direct, service, voice, serving>>

\* mission_status["distance_m"] = distance_m
MonitorSetDistance ==
    /\ pc = "set_distance"
    /\ mission_status' = [mission_status EXCEPT !.distance_m = stats.distance_m]
    /\ pc' = "set_elapsed"
    /\ UNCHANGED <<tracker, stats, monitor_exc, polls, narrations,
                   phase, now, feed, ret, updates, direct, service, voice, serving>>

\* mission_status["elapsed_min"] = elapsed_min
MonitorSetElapsed ==
    /\ pc = "set_elapsed"
    /\ mission_status' = [mission_status EXCEPT !.elapsed_min = stats.elapsed_min]
    /\ pc' = "check"
    /\ UNCHANGED <<tracker, stats, monitor_exc, polls, narrations,
                   phase, now, feed, ret, updates, direct, service, voice, serving>>

\* if mission._is_success(distance_m, elapsed_min):
MonitorCheck ==
    /\ pc = "check"
    /\ LET ok == IsSuccess(distance_goal_m, time_goal_min, stats.distance_m, stats.elapsed_min)
       IN  /\ pc' = CASE ok = "True" -> "set_success"
                      [] ok = "False" -> "sleep"
                      [] OTHER -> "crashed"
           /\ monitor_exc' = IF ok \in {"True", "False"} THEN monitor_exc ELSE ok
    /\ UNCHANGED <<tracker, mission_status, stats, polls, narrations,
                   phase, now, feed, ret, updates, direct, service, voice, serving>>

\* mission_status["is_success"] = True
MonitorSetSuccess ==
    /\ pc = "set_success"
    /\ mission_status' = [mission_status EXCEPT !.is_success = TRUE]
    /\ pc' = "set_inactive"
    /\ UNCHANGED <<tracker, stats, monitor_exc, polls, narrations,
                   phase, now, feed, ret, updates, direct, service, voice, serving>>

\* the monitor that marks success and goes on polling
MonitorSetInactiveNoStop ==
    /\ pc = "set_inactive"
    /\ pc' = "narrate"
    /\ UNCHANGED <<tracker, mission_status, stats, monitor_exc, polls, narrations,
                   phase, now, feed, ret, updates, direct, service, voice, serving>>

\* mission_status["is_active"] = False
MonitorSetInactive ==
    /\ pc = "set_inactive"
    /\ mission_status' = [mission_status EXCEPT !.is_active = FALSE]
    /\ pc' = "narrate"
    /\ UNCHANGED <<tracker, stats, monitor_exc, polls, narrations,
                   phase, now, feed, ret, updates, direct, service, voice, serving>>

\* the monitor that takes the success back when the narration fails, to try again
MonitorNarrateRetry ==
    /\ pc = "narrate"
    /\ narrations' = narrations + 1
    /\ \E ok \in BOOLEAN :
         /\ pc' = "sleep"
         /\ mission_status' = IF ok THEN mission_status
                              ELSE [mission_status EXCEPT !.is_success = FALSE,
                                                          !.is_active = TRUE]
    /\ UNCHANGED <<tracker, stats, monitor_exc, polls,
                   phase, now, feed, ret, updates, direct, service, voice, serving>>

\* VoiceGenerator(game_name="zombies").generate_audio("success", ""): it returns,
\* or it raises (no API key, no template, no audio) and the thread ends
MonitorNarrate ==
    /\ pc = "narrate"
    /\ narrations' = narrations + 1
    /\ \E ok \in BOOLEAN :
         /\ pc' = IF ok THEN "sleep" ELSE "crashed"
         /\ monitor_exc' = IF ok THEN monitor_exc ELSE "NarrationFailed"
    /\ UNCHANGED <<tracker, mission_status, stats, polls,
                   phase, now, feed, ret, updates, direct, service, voice, serving>>

\* time.sleep(MONITOR_INTERVAL)
MonitorSleep ==
    /\ pc = "sleep"
    /\ now + MONITOR_INTERVAL <= MaxClock
    /\ now' = now + MONITOR_INTERVAL
    /\ pc' = "while"
    /\ UNCHANGED <<tracker, mission_status, stats, monitor_exc, polls, narrations,
                   phase, feed, ret, updates, direct, service, voice, serving>>

Monitor ==
    \/ MonitorWhile
    \/ MonitorUpdate
    \/ MonitorSetDistance
    \/ MonitorSetElapsed
    \/ MonitorCheck
    \/ MonitorSetSuccess
    \/ MonitorSetInactive
    \/ MonitorNarrate
    \/ MonitorSleep

Next ==
    \/ Start
    \/ ClockTick
    \/ Update
    \/ End
    \/ Monitor

Spec == Init /\ [][Next]_vars

TypeOK ==
    /\ total_distance_m \in Nat
    /\ now \in 0..MaxClock
    /\ pc \in {"not_started", "while", "update", "set_distance", "set_elapsed", "check",
               "set_success", "set_inactive", "narrate", "sleep", "done", "crashed"}


(***************************************************************************)
(* The web application (app.py): the monitor thread beside the request     *)
(* handlers Flask serves once mission.start() has returned.                *)
(***************************************************************************)
\* a file of an earlier narration
Stored(dir, key, ext, mtime) ==
    [dir |-> dir, key |-> key, ext |-> ext, content |-> <<"n">>, mtime |-> mtime]

\* what stories/zombies/audio may hold when the application starts
StoredFiles ==
    {{},
     {Stored("success", 0, ".wav", 0), Stored("success", 0, ".txt", 0)},
     {Stored("success", 0, ".txt", 0), Stored("success", 1, ".txt", 1),
      Stored("failure", 0, ".txt", 1)}}

\* the module level of app.py, with the audio directory as earlier runs left it
InitApp ==
    /\ \E g \in GoalConfigs : distance_goal_m = g[1] /\ time_goal_min = g[2]
    /\ start_time = PyNone
    /\ start_location = <<PyNone, PyNone>>
    /\ session_file = << >>
    /\ total_distance_m = 0
    /\ mission_status = [distance_m |-> 0, elapsed_min |-> 0, is_success |-> FALSE,
                         is_failure |-> FALSE, is_active |-> TRUE]
    /\ pc = "not_started"
    /\ stats = [distance_m |-> 0, elapsed_min |-> 0]
    /\ monitor_exc = "none"
    /\ phase = "constructed"
    /\ now = 0
    /\ feed = NoData
    /\ ret = NoRet
    /\ updates = 0
    /\ polls = 0
    /\ narrations = 0
    /\ call = NoCall
    /\ result = NoResult
    /\ files \in StoredFiles
    /\ wall = 0
    /\ gpc = "idle"
    /\ stream = NoStream
    /\ gen = NoGen
    /\ gen_ret = NoGenRet
    /\ gen_calls = 0
    /\ InitServing
    /\ InitService

\* what a handler answers with, before any part of it is filled in
NoResponse(handler) == [handler |-> handler, status |-> InitStatus, audio |-> {}, file |-> {}]

\* get_mission_status writing the elapsed time into the record before it answers
GetMissionStatusRefreshing ==
    /\ phase = "started"
    /\ mission_status' = [mission_status EXCEPT !.elapsed_min = now - start_time.v]
    /\ response' = [NoResponse("status") EXCEPT !.status = mission_status']
    /\ UNCHANGED <<tracker, pc, stats, monitor_exc, polls, narrations,
                   phase, now, feed, ret, updates, direct, service, voice>>

\* get_mission_status: return jsonify(mission_status)
GetMissionStatus ==
    /\ phase = "started"
    /\ response' = [NoResponse("status") EXCEPT !.status = mission_status]
    /\ UNCHANGED <<tracker, monitor, phase, now, feed, ret, updates, direct, service, voice>>

\* the transcripts of a voice type, and the latest of them by st_mtime
TranscriptsOf(voice_type) == {f \in files : f.dir = voice_type /\ f.ext = ".txt"}
Latest(S) == {f \in S : \A g \in S : g.mtime <= f.mtime}

\* get_mission_audio(mission_name): the latest transcript of every voice type
\* that has one (any of the latest when two have one st_mtime); the list is a
\* local of the handler
GetMissionAudio ==
    /\ phase = "started"
    /\ \E mission_name \in {"zombies", "other"} :
         IF mission_name # "zombies" \/ files = {}
         THEN response' = NoResponse("audio")
         ELSE LET types == {"beginning", "interlude", "success", "failure"}
                  latest == UNION {Latest(TranscriptsOf(vt)) : vt \in types}
              IN  \E picked \in SUBSET latest :
                    /\ \A vt \in types :
                          Cardinality({f \in picked : f.dir = vt})
                              = IF TranscriptsOf(vt) = {} THEN 0 ELSE 1
                    /\ response' = [NoResponse("audio") EXCEPT !.audio =
                                       {[type |-> f.dir, key |-> f.key, ext |-> f.ext] :
                                           f \in picked}]
    /\ UNCHANGED <<tracker, monitor, phase, now, feed, ret, updates, direct, service, voice>>

\* serve_audio(mission_name, voice_type, filename): send_from_directory
ServeAudio ==
    /\ phase = "started"
    /\ \E name \in {<<"success", 0, ".wav">>, <<"success", 1, ".txt">>, <<"failure", 1, ".wav">>} :
         response' = [NoResponse("file") EXCEPT !.file =
                         {f.content : f \in {g \in files : g.dir = name[1] /\ g.key = name[2]
                                                           /\ g.ext = name[3]}}]
    /\ UNCHANGED <<tracker, monitor, phase, now, feed, ret, updates, direct, service, voice>>

Handlers ==
    \/ GetMissionStatus
    \/ GetMissionAudio
    \/ ServeAudio

NextApp ==
    \/ Start
    \/ ClockTick
    \/ Monitor
    \/ Handlers

SpecApp == InitApp /\ [][NextApp]_vars


(***************************************************************************)
(* VoiceGenerator.generate_audio (voices.py).  One action per step between *)
(* which the file system can be looked at.                                 *)
(***************************************************************************)
MaxWall == 3
MaxGenCalls == 1
MaxPayload == 2

\* the encoding descriptors the synthesis service sends: audio/L<b>;rate=<r>
MimeL(letter, b) == <<"a", "u", "d", "i", "o", "/", letter>> \o DigitsOf(b)
RateParam(r) == <<"r", "a", "t", "e", "=">> \o DigitsOf(r)
Descriptor(letter, b, r) == MimeL(letter, b) \o <<";">> \o RateParam(r)
\* "audio/mpeg"
AudioMpeg == <<"a", "u", "d", "i", "o", "/", "m", "p", "e", "g">>

\* mimetypes.guess_extension: the table knows audio/mpeg, not the raw PCM descriptors
GuessExtension(mime_type) == IF mime_type = AudioMpeg THEN ".mp3" ELSE "None"

\* the parts a chunk of the stream may carry: audio bytes under a descriptor (or
\* under none), inline data without bytes, and text
AudioPart(bytes, m) == [data |-> bytes, mime_type |-> m, text |-> ""]
TextPart(t) == [data |-> << >>, mime_type |-> NoMime, text |-> t]

\* the streams of the model: no chunk, chunks without parts, text only, audio in
\* one or two chunks, audio under audio/mpeg, audio without a descriptor; every
\* stream may also fail part-way
StreamSamples ==
    LET pcm == Mime(Descriptor("L", 16, 24000))
        chunkLists ==
          {<< >>,
           << << >> >>,
           << <<TextPart("s")>> >>,
           << <<AudioPart(<< >>, pcm)>> >>,
           << <<AudioPart(<<1>>, pcm)>> >>,
           << <<TextPart("s"), AudioPart(<<1>>, pcm)>>, << >>, <<AudioPart(<<2>>, pcm)>> >>,
           << <<AudioPart(<<1>>, Mime(AudioMpeg))>> >>,
           << <<AudioPart(<<1>>, NoMime)>>, <<TextPart("s")>> >>}
    IN  {[chunks |-> c, fails |-> f] : c \in chunkLists, f \in BOOLEAN}

\* the loop over the parts of one chunk (lines 148-157)
RECURSIVE TakeParts(_, _)
TakeParts(parts, g) ==
    IF parts = << >> THEN g
    ELSE LET part == Head(parts)
         IN  IF part.data # << >>
             THEN TakeParts(Tail(parts),
                            [g EXCEPT !.audio_mime_type =
                                          IF g.audio_mime_type.t = "None" THEN part.mime_type
                                          ELSE g.audio_mime_type,
                                      !.audio_bytes = g.audio_bytes \o part.data])
             ELSE IF part.text # ""
             THEN TakeParts(Tail(parts),
                            [g EXCEPT !.supplemental_text = Append(g.supplemental_text, part.text)])
             ELSE TakeParts(Tail(parts), g)

\* datetime.now().strftime("%Y-%m-%d_%H-%M-%S"): the clock cut to whole seconds
StrfTime(w) == w \div 2

\* the file that stands at a path, if any
FileAt(dir, key, ext) == {f \in files : f.dir = dir /\ f.key = key /\ f.ext = ext}

\* Path.write_bytes / Path.write_text: the file at the path is created or replaced
Written(dir, key, ext, content) ==
    (files \ FileAt(dir, key, ext))
        \cup {[dir |-> dir, key |-> key, ext |-> ext, content |-> content, mtime |-> wall]}

\* the transcript: the narration, then the supplemental text if there is any
Transcript(g) == IF g.supplemental_text = << >> THEN <<g.narration>>
                 ELSE <<g.narration>> \o g.supplemental_text

\* time passes for the narration pipeline
WallTick ==
    /\ wall < MaxWall
    /\ wall' = wall + 1
    /\ UNCHANGED <<tracker, monitor, phase, now, feed, ret, updates, direct, service, serving,
                   files, gpc, stream, gen, gen_ret, gen_calls>>

\* generate_audio(voice_type, text) up to the opening of the stream (lines 94-138);
\* narration is the text given or the rendered template, "" when there is neither
GenCall ==
    /\ gpc \in {"idle", "returned", "failed"}
    /\ gen_calls < MaxGenCalls
    /\ gen_calls' = gen_calls + 1
    /\ \E vt \in {"success", "failure"}, narration \in {"", "n"}, s \in StreamSamples :
         /\ gen' = [NoGen EXCEPT !.voice_type = vt, !.narration = narration]
         /\ IF narration = ""
            THEN /\ gpc' = "failed"
                 /\ gen_ret' = [NoGenRet EXCEPT !.exc = "ValueError"]
                 /\ stream' = NoStream
            ELSE /\ gpc' = "stream"
                 /\ gen_ret' = NoGenRet
                 /\ stream' = s
    /\ UNCHANGED <<tracker, monitor, phase, now, feed, ret, updates, direct, service, serving,
                   files, wall>>

\* a turn of the loop that writes the bytes to the audio file as they arrive
GenChunkWritesAsItGoes ==
    /\ gpc = "stream"
    /\ stream.chunks # << >>
    /\ gen' = TakeParts(Head(stream.chunks), gen)
    /\ stream' = [stream EXCEPT !.chunks = Tail(stream.chunks)]
    /\ files' = Written(gen.voice_type, StrfTime(wall), ".wav", gen'.audio_bytes)
    /\ UNCHANGED <<tracker, monitor, phase, now, feed, ret, updates, direct, service, serving,
                   wall, gpc, gen_ret, gen_calls>>

\* one turn of "for chunk in stream" (lines 140-157)
GenChunk ==
    /\ gpc = "stream"
    /\ stream.chunks # << >>
    /\ gen' = TakeParts(Head(stream.chunks), gen)
    /\ stream' = [stream EXCEPT !.chunks = Tail(stream.chunks)]
    /\ UNCHANGED <<tracker, monitor, phase, now, feed, ret, updates, direct, service, serving,
                   files, wall, gpc, gen_ret, gen_calls>>

\* the stream raises instead of delivering its next chunk
GenStreamRaises ==
    /\ gpc = "stream"
    /\ stream.chunks = << >>
    /\ stream.fails
    /\ gpc' = "failed"
    /\ gen_ret' = [NoGenRet EXCEPT !.exc = "StreamError"]
    /\ UNCHANGED <<tracker, monitor, phase, now, feed, ret, updates, direct, service, serving,
                   files, wall, stream, gen, gen_calls>>

\* the stream has ended: no audio raises, else the extension is guessed or the
\* bytes are wrapped (lines 159-172)
GenStreamEnd ==
    /\ gpc = "stream"
    /\ stream.chunks = << >>
    /\ ~stream.fails
    /\ LET m == gen.audio_mime_type
           guessed == IF m.t = "str" /\ m.s # << >> THEN GuessExtension(m.s) ELSE "None"
           wav == ConvertToWav(gen.audio_bytes,
                               IF m.t = "str" /\ m.s # << >> THEN m.s
                               ELSE Descriptor("L", 16, 24000))
       IN  IF gen.audio_bytes = << >>
           THEN /\ gpc' = "failed"
                /\ gen_ret' = [NoGenRet EXCEPT !.exc = "RuntimeError"]
                /\ gen' = gen
           ELSE IF guessed # "None"
           THEN /\ gpc' = "timestamp"
                /\ gen' = [gen EXCEPT !.audio_data = gen.audio_bytes, !.extension = guessed]
                /\ gen_ret' = gen_ret
           ELSE IF wav.exc # "none"
           THEN /\ gpc' = "failed"
                /\ gen_ret' = [NoGenRet EXCEPT !.exc = wav.exc]
                /\ gen' = gen
           ELSE /\ gpc' = "timestamp"
                /\ gen' = [gen EXCEPT !.audio_data = wav.data, !.extension = ".wav"]
                /\ gen_ret' = gen_ret
    /\ UNCHANGED <<tracker, monitor, phase, now, feed, ret, updates, direct, service, serving,
                   files, wall, stream, gen_calls>>

\* timestamp = datetime.now().strftime(...); audio_dir.mkdir(...) (lines 174-176)
GenTimestamp ==
    /\ gpc = "timestamp"
    /\ gen' = [gen EXCEPT !.timestamp = StrfTime(wall)]
    /\ \/ /\ gpc' = "write_audio"
          /\ gen_ret' = gen_ret
       \/ /\ gpc' = "failed"
          /\ gen_ret' = [NoGenRet EXCEPT !.exc = "OSError"]
    /\ UNCHANGED <<tracker, monitor, phase, now, feed, ret, updates, direct, service, serving,
                   files, wall, stream, gen_calls>>

\* audio_path.write_bytes(audio_data) (lines 178-179): the file is written, or
\* the write raises and leaves no file or a file cut short
GenWriteAudio ==
    /\ gpc = "write_audio"
    /\ \/ /\ files' = Written(gen.voice_type, gen.timestamp, gen.extension, gen.audio_data)
          /\ gpc' = "write_transcript"
          /\ gen_ret' = gen_ret
       \/ /\ files' \in {files, Written(gen.voice_type, gen.timestamp, gen.extension, << >>)}
          /\ gpc' = "failed"
          /\ gen_ret' = [NoGenRet EXCEPT !.exc = "OSError"]
    /\ UNCHANGED <<tracker, monitor, phase, now, feed, ret, updates, direct, service, serving,
                   wall, stream, gen, gen_calls>>

\* transcript_path.write_text(...); return str(audio_path) (lines 181-187)
GenWriteTranscript ==
    /\ gpc = "write_transcript"
    /\ \/ /\ files' = Written(gen.voice_type, gen.timestamp, ".txt", Transcript(gen))
          /\ gpc' = "returned"
          /\ gen_ret' = [NoGenRet EXCEPT !.path = [dir |-> gen.voice_type,
                                                   key |-> gen.timestamp,
                                                   ext |-> gen.extension]]
       \/ /\ files' \in {files, Written(gen.voice_type, gen.timestamp, ".txt", << >>)}
          /\ gpc' = "failed"
          /\ gen_ret' = [NoGenRet EXCEPT !.exc = "OSError"]
    /\ UNCHANGED <<tracker, monitor, phase, now, feed, ret, updates, direct, service, serving,
                   wall, stream, gen, gen_calls>>

GenerateAudio ==
    \/ GenCall
    \/ GenChunk
    \/ GenStreamRaises
    \/ GenStreamEnd
    \/ GenTimestamp
    \/ GenWriteAudio
    \/ GenWriteTranscript

NextVoice ==
    \/ WallTick
    \/ GenerateAudio

\* the narration pipeline on its own, beside a tracker constructed without goals
InitNarration ==
    /\ Init
    /\ distance_goal_m = PyNone
    /\ time_goal_min = PyNone

SpecVoice == InitNarration /\ [][NextVoice]_vars


(***************************************************************************)
(* Direct calls of the pure functions, on arguments drawn from small sets. *)
(***************************************************************************)
\* goals as RunningGame.__init__ declares them: a float, or None
GoalValues == {PyNone} \cup {Num(n) : n \in 0..MaxMeasure}

\* points of the shapes the location service may send
PointSamples == {Flat(0, 0), Flat(1, 0), Nested(2, 0), NoKeys,
                 [NoKeys EXCEPT !.lat = Num(1)],
                 [NoKeys EXCEPT !.location = [t |-> "other", d |-> NoLoc]],
                 [NoKeys EXCEPT !.lat = Null, !.lon = Null],
                 [NoKeys EXCEPT !.latitude = Str, !.longitude = Str]}

\* the point lists of at most MaxBatch points
Batches(S) == UNION {[1..n -> S] : n \in 0..MaxBatch}

\* the dicts a "location" entry may hold: none, or a dict with any of the nested
\* keys, every key holding a number of its own
NestedLocs ==
    {[t |-> "absent", d |-> NoLoc]} \cup
    {[t |-> "dict", d |-> [lat |-> a, latitude |-> b, lon |-> c, lng |-> d, longitude |-> e]] :
        a \in {Absent, Num(11)}, b \in {Absent, Num(12)},
        c \in {Absent, Num(14)}, d \in {Absent, Num(15)}, e \in {Absent, Num(16)}}

\* points that carry any of the flat keys and any "location" entry, every key
\* holding a number of its own, so that the key _extract_coords read is visible
MultiKeyPoints ==
    {[NoKeys EXCEPT !.lat = a, !.latitude = b, !.lat_deg = c,
                    !.lon = d, !.lng = e, !.longitude = f, !.lon_deg = g,
                    !.location = loc] :
        a \in {Absent, Num(1)}, b \in {Absent, Num(2)}, c \in {Absent, Num(3)},
        d \in {Absent, Num(4)}, e \in {Absent, Num(5)}, f \in {Absent, Num(6)},
        g \in {Absent, Num(7)}, loc \in NestedLocs}

\* {"latitude": a, "longitude": b}
LatLong(a, b) == [NoKeys EXCEPT !.latitude = Num(a), !.longitude = Num(b)]

\* the three shapes of a point carrying one pair of values
SameValueShapes ==
    UNION {{Flat(a, b), LatLong(a, b), Nested(a, b)} : a \in 0..MaxMeasure, b \in 0..MaxMeasure}

\* malformed points: coordinate keys holding null, a string, or only one of the two
MalformedPoints ==
    PointSamples \cup
    {[NoKeys EXCEPT !.lat = a, !.lon = b] : a \in {Null, Str, NumStr(1)}, b \in {Null, Str, Num(1)}}
    \cup {[NoKeys EXCEPT !.lat = Null, !.lon = Null, !.latitude = Num(2), !.longitude = Num(6)],
          [NoKeys EXCEPT !.location = [t |-> "dict", d |-> [NoLoc EXCEPT !.lat = Null, !.lon = Num(1)]]],
          [NoKeys EXCEPT !.location = [t |-> "dict", d |-> [NoLoc EXCEPT !.lat = Num(1)]]]}

ExtractCalls ==
    {[NoCall EXCEPT !.fn = "extract_coords", !.points = <<p>>] :
        p \in MultiKeyPoints \cup SameValueShapes \cup MalformedPoints}

\* the bit depths and rates of the descriptors of the model
BitDepths == {8, 16, 24}
Rates == {8000, 24000, 48000}

\* descriptors: audio/L<b>;rate=<r> in either letter case, with a codec
\* parameter in between, with a blank after the semicolon, without a rate,
\* without a bit depth, empty, and with a rate that is no number
DescriptorSamples ==
    {Descriptor(letter, b, r) : letter \in {"L", "l"}, b \in BitDepths, r \in Rates}
    \cup {MimeL("L", 16) \o <<";", "c", "o", "d", "e", "c", "=", "p", "c", "m", ";">>
             \o RateParam(24000),
          MimeL("l", 24) \o <<";", " ">> \o RateParam(48000),
          MimeL("L", 16),
          MimeL("l", 24),
          <<"a", "u", "d", "i", "o", "/", "p", "c", "m", ";">> \o RateParam(48000),
          << >>,
          MimeL("l", 16) \o <<";">> \o RateParam(24) \o <<"k">>}

\* raw payloads of at most MaxPayload bytes
Payloads == UNION {[1..n -> {0, 255}] : n \in 0..MaxPayload}

ConvertCalls ==
    {[NoCall EXCEPT !.fn = "convert_to_wav", !.audio_data = a, !.mime_type = m] :
        a \in Payloads, m \in DescriptorSamples}

\* Mission.__init__: super().__init__(game_name, mode, target_value) hands mode
\* and target_value to RunningGame.__init__ by position, where the second and
\* third parameters are distance_goal_m and time_goal_min
MissionInit(mode, target_value) ==
    [distance_goal_m |-> mode, time_goal_min |-> target_value]

\* Mission(game_name="zombies", mode="distance", target_value=v), then start()
\* and the success check of a tick at distance d and elapsed time e
MissionCalls ==
    {[NoCall EXCEPT !.fn = "mission", !.mode = Str, !.target_value = Num(v),
                    !.distance_m = d, !.elapsed_min = e] :
        v \in 1..MaxMeasure, d \in 0..MaxMeasure, e \in 0..MaxMeasure}

IsSuccessCalls ==
    {[NoCall EXCEPT !.fn = "is_success", !.distance_goal_m = dg, !.time_goal_min = tg,
                    !.distance_m = d, !.elapsed_min = e] :
        dg \in GoalValues, tg \in GoalValues, d \in 0..MaxMeasure, e \in 0..MaxMeasure}

AnalyzeCalls ==
    {[NoCall EXCEPT !.fn = "analyze_points", !.points = b] : b \in Batches(PointSamples)}

InitFn ==
    /\ distance_goal_m = PyNone
    /\ time_goal_min = PyNone
    /\ start_time = PyNone
    /\ start_location = <<PyNone, PyNone>>
    /\ session_file = << >>
    /\ total_distance_m = 0
    /\ mission_status = [distance_m |-> 0, elapsed_min |-> 0, is_success |-> FALSE,
                         is_failure |-> FALSE, is_active |-> TRUE]
    /\ pc = "not_started"
    /\ stats = [distance_m |-> 0, elapsed_min |-> 0]
    /\ monitor_exc = "none"
    /\ phase = "constructed"
    /\ now = 0
    /\ feed = NoData
    /\ ret = NoRet
    /\ updates = 0
    /\ polls = 0
    /\ narrations = 0
    /\ call \in IsSuccessCalls \cup AnalyzeCalls \cup ExtractCalls \cup ConvertCalls
                \cup MissionCalls
    /\ result = NoResult
    /\ InitVoice
    /\ InitServing
    /\ InitService

\* RunningGame(..., dg, tg)._is_success(d, e)
CallIsSuccess ==
    /\ call.fn = "is_success"
    /\ ~result.done
    /\ result' = [NoResult EXCEPT !.done = TRUE,
                                  !.value = IsSuccess(call.distance_goal_m, call.time_goal_min,
                                                      call.distance_m, call.elapsed_min)]
    /\ UNCHANGED <<tracker, monitor, phase, now, feed, ret, updates, call, voice, serving, service>>

\* Dawarich().analyze_points(points)
CallAnalyzePoints ==
    /\ call.fn = "analyze_points"
    /\ ~result.done
    /\ result' = [NoResult EXCEPT !.done = TRUE, !.stats = AnalyzePoints(call.points)]
    /\ UNCHANGED <<tracker, monitor, phase, now, feed, ret, updates, call, voice, serving, service>>

\* Dawarich()._extract_coords(point)
CallExtractCoords ==
    /\ call.fn = "extract_coords"
    /\ ~result.done
    /\ result' = [NoResult EXCEPT !.done = TRUE, !.coords = ExtractCoords(call.points[1])]
    /\ UNCHANGED <<tracker, monitor, phase, now, feed, ret, updates, call, voice, serving, service>>

\* convert_to_wav(audio_data, mime_type)
CallConvertToWav ==
    /\ call.fn = "convert_to_wav"
    /\ ~result.done
    /\ result' = [NoResult EXCEPT !.done = TRUE,
                                  !.wav = ConvertToWav(call.audio_data, call.mime_type)]
    /\ UNCHANGED <<tracker, monitor, phase, now, feed, ret, updates, call, voice, serving, service>>

\* the module level of app.py on its own: the Mission is built, start() writes
\* the header, and the monitor's tick evaluates mission._is_success(d, e)
CallMission ==
    /\ call.fn = "mission"
    /\ ~result.done
    /\ LET goals == MissionInit(call.mode, call.target_value)
       IN  result' = [NoResult EXCEPT
                         !.done = TRUE,
                         !.goals = goals,
                         !.start_exc = HeaderExc(goals.distance_goal_m, goals.time_goal_min),
                         !.value = IsSuccess(goals.distance_goal_m, goals.time_goal_min,
                                             call.distance_m, call.elapsed_min)]
    /\ UNCHANGED <<tracker, monitor, phase, now, feed, ret, updates, call, voice, serving, service>>

NextFn ==
    \/ CallIsSuccess
    \/ CallAnalyzePoints
    \/ CallExtractCoords
    \/ CallConvertToWav
    \/ CallMission

SpecFn == InitFn /\ [][NextFn]_vars


(***************************************************************************)
(* The tracker beside a location service that answers from what it has     *)
(* recorded: get_points_since(ts) gives the points recorded at ts or later, *)
(* in recording order.                                                     *)
(***************************************************************************)
\* the length of a day on the model's clock, and the most points recorded
MinutesPerDay == 2
MaxRecorded == 3

\* datetime(year, month, day): the start of the day the time lies in
Midnight(t) == t - (t % MinutesPerDay)

\* the body the service answers GET /points?from=ts with
GetPointsSince(ts) ==
    LET kept == SelectSeq(recorded, LAMBDA r : r.at >= ts)
    IN  [i \in 1..Len(kept) |-> kept[i].point]

\* a session yet to start, the service without a point, goals as given
InitDay ==
    /\ Init
    /\ distance_goal_m = Num(2)
    /\ time_goal_min = PyNone

\* time passes, before the session and during it
DayClockTick ==
    /\ now < MaxClock
    /\ now' = now + 1
    /\ UNCHANGED <<tracker, monitor, phase, feed, ret, updates, direct, service, voice, serving>>

\* the runner's phone reports a point to the service
RecordPoint ==
    /\ Len(recorded) < MaxRecorded
    /\ \E p \in {Flat(0, 0), Flat(1, 0)} :
         recorded' = Append(recorded, [at |-> now, point |-> p])
    /\ UNCHANGED <<tracker, monitor, phase, now, feed, ret, updates, direct, voice, serving>>

\* RunningGame.start: the current location is asked for with from = now
StartSession ==
    /\ phase = "constructed"
    /\ LET loc == CurrentLocation(GetPointsSince(now))
           hexc == HeaderExc(distance_goal_m, time_goal_min)
       IN  /\ start_time' = Num(now)
           /\ IF loc.exc # "none"
              THEN /\ phase' = "start_failed"
                   /\ UNCHANGED <<start_location, session_file>>
              ELSE /\ start_location' = <<loc.lat, loc.lon>>
                   /\ IF hexc # "none"
                      THEN /\ session_file' = <<LogEntry("partial_header", 0, 0, "")>>
                           /\ phase' = "start_failed"
                      ELSE /\ session_file' = <<LogEntry("header", 0, 0, "")>>
                           /\ phase' = "started"
    /\ UNCHANGED <<distance_goal_m, time_goal_min, total_distance_m, monitor,
                   now, feed, ret, updates, direct, service, voice, serving>>

\* RunningGame.update: dawarich.since(start_time.year, .month, .day) asks for the
\* points from the midnight of the start date on
UpdateSession ==
    /\ phase = "started"
    /\ updates < MaxCalls
    /\ LET s == AnalyzePoints(GetPointsSince(Midnight(start_time.v)))
       IN  /\ feed' = s
           /\ ret' = UpdateRet(s)
           /\ IF UpdateRaises(s)
              THEN UNCHANGED <<total_distance_m, session_file>>
              ELSE /\ total_distance_m' = UpdatedDistance(total_distance_m, s)
                   /\ session_file' = Append(session_file, AuditLine(s))
    /\ updates' = updates + 1
    /\ UNCHANGED <<distance_goal_m, time_goal_min, start_time, start_location,
                   monitor, phase, now, direct, service, voice, serving>>

NextDay ==
    \/ DayClockTick
    \/ RecordPoint
    \/ StartSession
    \/ UpdateSession

SpecDay == InitDay /\ [][NextDay]_vars


(***************************************************************************)
(* Properties.                                                             *)
(***************************************************************************)
\* the status the record shows
StatusOf(ms) ==
    IF ms.is_success THEN "SUCCESS"
    ELSE IF ms.is_failure THEN "FAILURE"
    ELSE "ACTIVE"

\* the monitor has detected success on this tick or an earlier one
Detected == pc \in {"set_success", "set_inactive", "narrate"} \/ mission_status.is_success

\* the positions of the terminal records in the session file
EndRecords == {i \in 1..Len(session_file) : session_file[i].kind = "end"}

\* a call of update() (from the monitor, from end() or direct) happens in this step
UpdateCalled == updates' = updates + 1

\* C1: a fetch failure during a tick of monitor_mission is caught and does not end
\* the monitor loop: the thread is never dead from the feed's exception.
C1_FetchFailureDoesNotEndMonitor ==
    ~(pc = "crashed" /\ monitor_exc = "FetchFailed")

\* C2 as stated: a terminal status is reached once and for all. The status record
\* never goes back, and all terminal results the session produces (the record's
\* status and the results end() reports) are one and the same; in particular the
\* session file never holds Result: FAILURE and after it Result: SUCCESS.
C2_TerminalStatusOnceAndForAll ==
    /\ [](\A i \in EndRecords : \A j \in EndRecords :
             session_file[i].result = session_file[j].result)
    /\ [](\A i \in EndRecords :
             StatusOf(mission_status) \in {"ACTIVE", session_file[i].result})
    /\ [][StatusOf(mission_status) # "ACTIVE"
             => StatusOf(mission_status') = StatusOf(mission_status)]_vars

\* C2 amended: the status record of the monitor leaves ACTIVE at most once and for
\* good: once is_success is set it stays set, once is_active is cleared it stays
\* cleared, and is_failure is never set. (The results of end() are not part of it.)
C2_StatusRecordIrreversible ==
    [][/\ mission_status.is_success => mission_status'.is_success
       /\ ~mission_status.is_active => ~mission_status'.is_active
       /\ ~mission_status'.is_failure
       /\ StatusOf(mission_status) # "ACTIVE"
             => StatusOf(mission_status') = StatusOf(mission_status)]_vars

\* the monitor has reported success and stopped, and an end() after it reported
\* FAILURE: the record still shows SUCCESS
C2_Witness ==
    /\ mission_status.is_success
    /\ ~mission_status.is_active
    /\ pc = "done"
    /\ ret.fn = "end"
    /\ ret.result = "FAILURE"

\* C3: on the tick that detects success the monitor starts the success narration
\* exactly once and stops polling: it never starts a second narration, a tick that
\* detected success has started one by the time it sleeps or ends, and after the
\* detection the monitor calls update() no more, whether the narration returned
\* or raised.
C3_NarrationOnceThenNoPolling ==
    /\ [](/\ narrations <= 1
          /\ narrations = 1 => mission_status.is_success
          /\ (mission_status.is_success /\ ~mission_status.is_active /\ pc # "narrate")
                => narrations = 1)
    /\ [][Detected => polls' = polls]_vars

\* success was detected on the second tick, the narration raised, and the thread
\* is gone without a further poll
C3_Witness ==
    /\ narrations = 1
    /\ polls = 2
    /\ pc = "crashed"
    /\ monitor_exc = "NarrationFailed"

\* C4: within a session total_distance_m never decreases, whatever the feed answers.
C4_DistanceNonDecreasing ==
    [][total_distance_m' >= total_distance_m]_vars

\* C5: _is_success(distance, elapsed) is true exactly when every goal that is set
\* (is not None) has its measured value >= its threshold; an unset goal never
\* blocks success, and one unmet goal is enough for False.
C5_IsSuccessIffEverySetGoalMet ==
    (result.done /\ call.fn = "is_success") =>
        LET dmet == call.distance_goal_m.t = "None"
                        \/ call.distance_m >= call.distance_goal_m.v
            tmet == call.time_goal_min.t = "None"
                        \/ call.elapsed_min >= call.time_goal_min.v
        IN  result.value = IF dmet /\ tmet THEN "True" ELSE "False"

\* both goals set, both measured values exactly on their thresholds: True
C5_Witness ==
    /\ result.done
    /\ call.fn = "is_success"
    /\ call.distance_goal_m = Num(2)
    /\ call.time_goal_min = Num(3)
    /\ call.distance_m = 2
    /\ call.elapsed_min = 3
    /\ result.value = "True"

\* the goals are unmet for the values update() returned
Unmet(d, e) == IsSuccess(distance_goal_m, time_goal_min, d, e) # "True"

\* C6: during polling failure is never detected (is_failure stays false), the
\* monitor keeps polling while the goal is unmet (its thread has not ended unless
\* it detected success), and FAILURE comes only from end(), exactly when the goals
\* are unmet for the values of that call's update (the audit line before the
\* terminal record).
C6_FailureOnlyAtEndMonitorKeepsPolling ==
    /\ ~mission_status.is_failure
    /\ (phase = "started" /\ ~Detected /\ Unmet(total_distance_m, now - start_time.v))
          => pc \notin {"done", "crashed"}
    /\ \A i \in EndRecords :
          /\ session_file[i - 1].kind = "audit"
          /\ session_file[i].result = "FAILURE"
                <=> Unmet(session_file[i - 1].distance_m, session_file[i - 1].elapsed_min)

\* both goals are set
BothGoals == distance_goal_m.t = "num" /\ time_goal_min.t = "num"

\* both thresholds are reached by the values the monitor measured on its tick
BothMet == /\ mission_status.distance_m >= distance_goal_m.v
           /\ mission_status.elapsed_min >= time_goal_min.v

\* C7: with both goals set the monitor turns the status to SUCCESS exactly once, on
\* the first tick whose measured values reach both thresholds: the tick that sets
\* is_success measured both at or above their thresholds (not earlier), a tick that
\* ends without success measured at least one below its threshold (not later), and
\* is_success is never set twice or taken back.
C7_SuccessOnFirstTickBothMet ==
    /\ [](BothGoals /\ pc = "sleep" /\ ~mission_status.is_success => ~BothMet)
    /\ [][BothGoals =>
            /\ (~mission_status.is_success /\ mission_status'.is_success) => BothMet
            /\ mission_status.is_success => mission_status'.is_success]_vars

\* the first tick measured the distance goal reached and the time goal not, the
\* second tick both, and the status is SUCCESS
C7_Witness ==
    /\ BothGoals
    /\ polls = 2
    /\ updates = 2
    /\ Len(session_file) = 3
    /\ session_file[2].distance_m >= distance_goal_m.v
    /\ session_file[2].elapsed_min < time_goal_min.v
    /\ mission_status.is_success
    /\ BothMet

\* C8: when the feed answers a tick with a summary of total d, update() replaces
\* the cumulative distance by d, for every d (0 and d below the old value too):
\* total_distance_m and the returned distance_m are d.
C8_UpdateReplacesDistance ==
    [][(UpdateCalled /\ feed'.kind = "summary") =>
          /\ total_distance_m' = feed'.distance_travelled_m
          /\ ret'.distance_m = feed'.distance_travelled_m]_vars

\* C9: when the feed yields NoData, update() does not raise, leaves
\* total_distance_m as it was, recomputes the elapsed time from the clock, appends
\* its audit line to the session file and returns the previous distance.
C9_NoDataIsNoProgress ==
    [][(UpdateCalled /\ feed'.kind = "None") =>
          /\ ret'.exc = "none"
          /\ total_distance_m' = total_distance_m
          /\ ret'.distance_m = total_distance_m
          /\ ret'.elapsed_min = now - start_time.v
          /\ Len(session_file') > Len(session_file)
          /\ SubSeq(session_file', 1, Len(session_file)) = session_file
          /\ session_file'[Len(session_file) + 1] =
                LogEntry("audit", total_distance_m, now - start_time.v, "")]_vars

\* an update() that got NoData after the session had gained distance and time
C9_Witness ==
    /\ updates = 2
    /\ feed.kind = "None"
    /\ ret.exc = "none"
    /\ ret.distance_m = total_distance_m
    /\ total_distance_m > 0
    /\ ret.elapsed_min > 0

\* _extract_coords gives the point a coordinate pair
Resolvable(point) ==
    /\ ExtractCoords(point).exc = "none"
    /\ ExtractCoords(point).lat.t = "num"
    /\ ExtractCoords(point).lon.t = "num"

\* C10: analyze_points returns None for every batch with fewer than 2 points with
\* resolvable coordinates, and a summary for every batch with at least 2.
C10_NoDataIffFewerThanTwoResolvable ==
    (result.done /\ call.fn = "analyze_points") =>
        LET n == Cardinality({i \in 1..Len(call.points) : Resolvable(call.points[i])})
        IN  IF n < 2 THEN result.stats = NoData
            ELSE result.stats.kind = "summary"

\* the sum of the legs that start at the resolvable points from index i on, each
\* leg running to the next resolvable point that arrived later
RECURSIVE LegsFrom(_, _)
LegsFrom(points, i) ==
    IF i > Len(points) THEN 0
    ELSE LET later == {j \in (i + 1)..Len(points) : Resolvable(points[j])}
             a == ExtractCoords(points[i])
             b == ExtractCoords(points[Min(later)])
         IN  (IF Resolvable(points[i]) /\ later # {}
              THEN Haversine(a.lat.v, a.lon.v, b.lat.v, b.lon.v)
              ELSE 0) + LegsFrom(points, i + 1)

\* C11: for every batch with at least 2 resolvable points, analyze_points returns
\* the sum of the distances between consecutive resolvable points in arrival
\* order, the unresolvable points dropped and their neighbours paired.
C11_DistanceIsArrivalOrderSum ==
    (result.done /\ call.fn = "analyze_points") =>
        LET n == Cardinality({i \in 1..Len(call.points) : Resolvable(call.points[i])})
        IN  n >= 2 =>
              /\ result.stats.kind = "summary"
              /\ result.stats.distance_travelled_m = LegsFrom(call.points, 1)

\* the first of the keys that is in the dict
FirstPresent(d, keys) == keys[Min({i \in 1..Len(keys) : In(d, keys[i])})]
AnyPresent(d, keys) == \E i \in 1..Len(keys) : In(d, keys[i])

\* the pair of values that wins by the priority order: the first latitude key
\* present and the first longitude key present, flat before nested
Winner(point) ==
    LET flatLat == <<"lat", "latitude", "lat_deg">>
        flatLon == <<"lon", "lng", "longitude", "lon_deg">>
        nestLat == <<"lat", "latitude">>
        nestLon == <<"lon", "lng", "longitude">>
        loc == point.location
    IN  IF AnyPresent(point, flatLat) /\ AnyPresent(point, flatLon)
        THEN <<point[FirstPresent(point, flatLat)], point[FirstPresent(point, flatLon)]>>
        ELSE IF loc.t = "dict" /\ AnyPresent(loc.d, nestLat) /\ AnyPresent(loc.d, nestLon)
        THEN <<loc.d[FirstPresent(loc.d, nestLat)], loc.d[FirstPresent(loc.d, nestLon)]>>
        ELSE <<PyNone, PyNone>>

IsNumber(x) == x.t \in {"num", "numstr"}

\* C12: _extract_coords resolves a point by the fixed priority order: the first
\* flat pair present wins (latitude keys lat, latitude, lat_deg, each with the
\* longitude keys lon, lng, longitude, lon_deg), a flat pair wins over a nested
\* one, and the shapes {lat,lon}, {latitude,longitude} and {location:{lat,lon}}
\* carrying the same values resolve to the same pair.
C12_FirstPairInPriorityOrderWins ==
    (result.done /\ call.fn = "extract_coords") =>
        LET p == call.points[1]
            w == Winner(p)
        IN  /\ (IsNumber(w[1]) /\ IsNumber(w[2])) =>
                  result.coords = [exc |-> "none", lat |-> Num(w[1].v), lon |-> Num(w[2].v)]
            /\ (w = <<PyNone, PyNone>>) =>
                  result.coords = [exc |-> "none", lat |-> PyNone, lon |-> PyNone]
            /\ \A a, b \in 0..MaxMeasure :
                  p \in {Flat(a, b), LatLong(a, b), Nested(a, b)} =>
                      result.coords = [exc |-> "none", lat |-> Num(a), lon |-> Num(b)]

\* a point that satisfies every flat pattern and the nested ones resolved to its
\* lat and lon
C12_Witness ==
    /\ result.done
    /\ call.fn = "extract_coords"
    /\ \A k \in {"lat", "latitude", "lat_deg", "lon", "lng", "longitude", "lon_deg"} :
          In(call.points[1], k)
    /\ call.points[1].location.t = "dict"
    /\ In(call.points[1].location.d, "lat")
    /\ In(call.points[1].location.d, "lon")
    /\ result.coords.lat = call.points[1].lat
    /\ result.coords.lon = call.points[1].lon

\* C13: _extract_coords never raises: for every malformed point it returns the
\* sentinel (None, None).
C13_ExtractCoordsNeverRaises ==
    (result.done /\ call.fn = "extract_coords") =>
        /\ result.coords.exc = "none"
        /\ ~Resolvable(call.points[1]) =>
              (result.coords.lat = PyNone /\ result.coords.lon = PyNone)

\* the audit lines of the session file
AuditLines == {i \in 1..Len(session_file) : session_file[i].kind = "audit"}

\* C14: the session log is append-only and every call is recorded: after start()
\* the log is the header followed by one audit line per update() call (those made
\* by end() included), every end() appends its audit line immediately followed by
\* its terminal record, and no call rewrites or removes an earlier line.
C14_EveryCallRecordedAppendOnly ==
    /\ [](phase = "started" =>
            /\ session_file[1].kind = "header"
            /\ Cardinality(AuditLines) = updates
            /\ \A i \in EndRecords : session_file[i - 1].kind = "audit")
    /\ [][/\ Len(session_file') >= Len(session_file)
          /\ SubSeq(session_file', 1, Len(session_file)) = session_file
          /\ UpdateCalled =>
               Len(session_file') = Len(session_file) + (IF ret'.fn = "end" THEN 2 ELSE 1)
          /\ (UpdateCalled /\ ret'.fn = "end") =>
               /\ session_file'[Len(session_file) + 1].kind = "audit"
               /\ session_file'[Len(session_file) + 2].kind = "end"]_vars

\* the audio bytes the chunks carry
RECURSIVE AudioIn(_)
AudioIn(chunks) ==
    IF chunks = << >> THEN 0
    ELSE LET RECURSIVE InParts(_)
             InParts(parts) == IF parts = << >> THEN 0
                               ELSE Len(Head(parts).data) + InParts(Tail(parts))
         IN  InParts(Head(chunks)) + AudioIn(Tail(chunks))

\* C15: generate_audio writes no file until the whole stream has been consumed:
\* the file system changes only after the stream ended with at least one audio
\* byte; a stream that carried zero audio bytes, or failed part-way, makes the
\* call raise with no file created.
C15_NoFileBeforeStreamConsumed ==
    /\ [][files' # files =>
            /\ gpc \in {"write_audio", "write_transcript"}
            /\ stream.chunks = << >> /\ ~stream.fails
            /\ gen.audio_bytes # << >>]_vars
    /\ [][(gpc = "stream" /\ gpc' = "stream") =>
            Len(gen'.audio_bytes) + AudioIn(stream'.chunks)
                = Len(gen.audio_bytes) + AudioIn(stream.chunks)]_vars
    /\ [][(gpc = "stream" /\ gpc' # "stream"
           /\ (stream.fails \/ Len(gen.audio_bytes) + AudioIn(stream.chunks) = 0)) =>
            /\ gpc' = "failed"
            /\ gen_ret'.exc = IF stream.fails THEN "StreamError" ELSE "RuntimeError"
            /\ files' = files]_vars
    /\ [](gpc \in {"timestamp", "write_audio", "write_transcript", "returned"} =>
            stream.chunks = << >> /\ ~stream.fails /\ gen.audio_bytes # << >>)

\* a stream that delivered text but not one audio byte: the call raised and
\* there is no file
C15_Witness ==
    /\ gpc = "failed"
    /\ gen_ret.exc = "RuntimeError"
    /\ gen.supplemental_text # << >>
    /\ gen.audio_bytes = << >>
    /\ files = {}

\* the audio files and the transcript files
AudioFiles == {f \in files : f.ext # ".txt"}
TranscriptFiles == {f \in files : f.ext = ".txt"}

\* C16: in every state in which generate_audio has returned or failed, an audio
\* file with key k exists in a voice-type directory if and only if the transcript
\* with key k exists there, and the two files of a call that returned carry the
\* key taken before the first write.
C16_AudioAndTranscriptUnderOneKey ==
    gpc \in {"returned", "failed"} =>
        /\ \A f \in AudioFiles : \E t \in TranscriptFiles : t.dir = f.dir /\ t.key = f.key
        /\ \A t \in TranscriptFiles : \E f \in AudioFiles : f.dir = t.dir /\ f.key = t.key
        /\ gpc = "returned" =>
             /\ FileAt(gen.voice_type, gen.timestamp, gen.extension) # {}
             /\ FileAt(gen.voice_type, gen.timestamp, ".txt") # {}

\* the field of the returned bytes at positions a..b, read as little-endian
Field(a, b) == FromLittleEndian(SubSeq(result.wav.data, a, b))

\* C17: for every raw payload of n bytes convert_to_wav returns 44 + n bytes: a
\* 44-byte header followed by the payload unchanged, with RIFF chunk size 36 + n,
\* data chunk size n, format tag 1, 1 channel, block alignment = bits per sample
\* div 8 and byte rate = sample rate * block alignment.
C17_WavIsHeaderPlusPayload ==
    (result.done /\ call.fn = "convert_to_wav") =>
        LET n == Len(call.audio_data)
        IN  /\ result.wav.exc = "none"
            /\ Len(result.wav.data) = 44 + n
            /\ SubSeq(result.wav.data, 45, 44 + n) = call.audio_data
            /\ SubSeq(result.wav.data, 1, 4) = <<82, 73, 70, 70>>
            /\ Field(5, 8) = 36 + n
            /\ Field(41, 44) = n
            /\ Field(21, 22) = 1
            /\ Field(23, 24) = 1
            /\ Field(33, 34) = Field(35, 36) \div 8
            /\ Field(29, 32) = Field(25, 28) * Field(33, 34)

\* a payload of 2 bytes wrapped at 24 bits and 48000 Hz: 46 bytes, byte rate 144000
C17_Witness ==
    /\ result.done
    /\ call.fn = "convert_to_wav"
    /\ call.audio_data = <<0, 255>>
    /\ Len(result.wav.data) = 46
    /\ Field(5, 8) = 38
    /\ Field(29, 32) = 144000

\* C18: the header declares the rate and the bit depth the descriptor carries:
\* for audio/L<b>;rate=<r> in either letter case the header has bits_per_sample =
\* b and sample_rate = r; a parameter is replaced by its default (16 bits,
\* 24000 Hz) only when the descriptor does not carry it.
C18_HeaderDeclaresDescriptorParameters ==
    (result.done /\ call.fn = "convert_to_wav") =>
        /\ \A letter \in {"L", "l"}, b \in BitDepths, r \in Rates :
              call.mime_type = Descriptor(letter, b, r) =>
                  (Field(35, 36) = b /\ Field(25, 28) = r)
        /\ \A letter \in {"L", "l"}, b \in BitDepths :
              call.mime_type = MimeL(letter, b) =>
                  (Field(35, 36) = b /\ Field(25, 28) = 24000)
        /\ call.mime_type = << >> => (Field(35, 36) = 16 /\ Field(25, 28) = 24000)

\* the progress state: the shared record and the Mission object's fields
ProgressState == <<mission_status, start_time, start_location, total_distance_m, session_file>>

\* C19: the polling task is the only writer of the progress state: no request
\* handler changes mission_status or the Mission object's start_time,
\* start_location, total_distance_m or session log, and once the application
\* serves, every change to them is a step of the monitor thread.
C19_OnlyMonitorWritesProgressState ==
    /\ [][Handlers => UNCHANGED ProgressState]_vars
    /\ [][(phase = "started" /\ ProgressState' # ProgressState) => Monitor]_vars

\* a status request answered in the middle of a monitor tick that had changed
\* the record
C19_Witness ==
    /\ response.handler = "status"
    /\ pc = "set_elapsed"
    /\ response.status = mission_status
    /\ mission_status.distance_m > 0
    /\ updates = 2

\* the (distance_m, elapsed_min) pairs update() has returned so far, as its audit
\* lines record them, and the pair the record starts with
UpdatePairs ==
    {<<0, 0>>} \cup {<<session_file[i].distance_m, session_file[i].elapsed_min>> : i \in AuditLines}

\* C20: every status a request handler reads is a consistent snapshot: exactly
\* one of is_active, is_success, is_failure is true, and distance_m and
\* elapsed_min come from the same update() call.
C20_StatusReadIsConsistentSnapshot ==
    response.handler = "status" =>
        /\ Cardinality({f \in {"is_active", "is_success", "is_failure"} : response.status[f]}) = 1
        /\ <<response.status.distance_m, response.status.elapsed_min>> \in UpdatePairs

\* C21: for the Mission of app.py, built with mode "distance" and target value v,
\* the goal evaluated is a distance threshold with no time threshold, start() and
\* the success check complete without error: the mode string is not the
\* distance goal and v is not the time goal.
C21_MissionGoalIsDistanceThreshold ==
    (result.done /\ call.fn = "mission") =>
        /\ result.goals.distance_goal_m.t = "num"
        /\ result.goals.distance_goal_m # call.mode
        /\ result.goals.time_goal_min = PyNone
        /\ result.start_exc = "none"
        /\ result.value \in {"True", "False"}

\* the distance of the points recorded since the session's start_time
SessionDistance == PathLength(CoordsOf(GetPointsSince(start_time.v)))

\* C22: the distance update() reports counts only movement of the session:
\* points recorded before start_time never contribute, so total_distance_m and
\* the distance returned never exceed the path of the points recorded since the
\* start (none gained when there was no movement since the start).
C22_OnlySessionMovementCounts ==
    phase = "started" =>
        /\ total_distance_m <= SessionDistance
        /\ (ret.fn = "update" /\ ret.exc = "none") => ret.distance_m <= SessionDistance

\* C23: whenever analyze_points returns a summary, its latest_location is the
\* coordinate pair of the last resolvable point of the batch, never the
\* sentinel (None, None), also when the final raw point is unresolvable.
C23_LatestLocationIsLastResolvable ==
    (result.done /\ call.fn = "analyze_points" /\ result.stats.kind = "summary") =>
        LET last == CHOOSE i \in 1..Len(call.points) :
                        /\ Resolvable(call.points[i])
                        /\ \A j \in (i + 1)..Len(call.points) : ~Resolvable(call.points[j])
            c == ExtractCoords(call.points[last])
        IN  /\ result.stats.latest_location # <<PyNone, PyNone>>
            /\ result.stats.latest_location = <<c.lat, c.lon>>

====
